---- MODULE Spec2Model ----
(***************************************************************************)
(* Textart: the palette, the palette factory and the image downsizing of   *)
(* src/textart/utils.py, and the truncating palette of                     *)
(* src/textart/converter.py.                                               *)
(*                                                                         *)
(* A python str is a sequence of one-character strings; a palette's list   *)
(* holds strs.  A float value is the dyadic rational v / Den, which the    *)
(* float arithmetic of the code represents and multiplies exactly.         *)
(***************************************************************************)
EXTENDS Integers, Sequences, FiniteSets

VARIABLES patterns, log, handles, heap, len0, fresh, last, src, base,
          pixels, text, built, check, display

vars == <<patterns, log, handles, heap, len0, fresh, last, src, base,
          pixels, text, built, check, display>>

----------------------------------------------------------------------------
(* Bounds *)

MaxLen == 3
MaxPatLen == 2
DenBits == 2
MaxDim == 5
MaxPixels == 4
MaxStretch == 2

Chars == {"a", "b"}
Names == {"x", "y"}
Classes == {"utils", "converter"}
Slots == {"p", "q"}

Den == 2 ^ DenBits
Values == (0 - 1) .. (Den + 1)
EndValues == {0 - 1, 0, Den}

Alphabet == <<"a", "b", "c", "d">>

SeqsUpTo(S, n) == UNION {[1 .. k -> S] : k \in 0 .. n}

----------------------------------------------------------------------------
(* Python helpers *)

Abs(i) == IF i < 0 THEN 0 - i ELSE i

\* int(p / q): truncation toward zero
int(p, q) == IF p >= 0 THEN p \div q ELSE 0 - ((0 - p) \div q)

\* round(p / q): nearest integer, a tie goes to the even one
round(p, q) ==
    LET a == Abs(p)
        f == a \div q
        r == a % q
        m == IF 2 * r < q THEN f
             ELSE IF 2 * r > q THEN f + 1
             ELSE IF f % 2 = 0 THEN f ELSE f + 1
    IN  IF p >= 0 THEN m ELSE 0 - m

Rev(s) == [i \in 1 .. Len(s) |-> s[Len(s) + 1 - i]]

\* list(c for c in characters): one str per character
list(characters) == [i \in 1 .. Len(characters) |-> <<characters[i]>>]

RECURSIVE join(_)
\* ''.join(strs)
join(strs) == IF strs = <<>> THEN <<>> ELSE Head(strs) \o join(Tail(strs))

\* list[i] of python: a negative index counts from the end
InRange(l, i) == (0 - Len(l)) <= i /\ i < Len(l)
Slot(l, i) == IF i >= 0 THEN i + 1 ELSE Len(l) + i + 1

----------------------------------------------------------------------------
(* Palette *)

NoObj == [cls |-> "", palette |-> <<>>, is_reversed |-> FALSE]

\* a constructor that keeps the characters in descending order
Palette_sorted(cls, characters) ==
    [cls |-> cls,
     palette |-> IF Len(characters) > 1 /\ characters[1] = "a"
                 THEN Rev(list(characters)) ELSE list(characters),
     is_reversed |-> FALSE]

Palette(cls, characters) ==
    [cls |-> cls, palette |-> list(characters), is_reversed |-> FALSE]

\* reverse() that sets the flag instead of toggling it
reverse_sets_flag(self) ==
    [self EXCEPT !.palette = Rev(self.palette), !.is_reversed = TRUE]

reverse(self) ==
    [self EXCEPT !.palette = Rev(self.palette),
                 !.is_reversed = ~self.is_reversed]

is_reversed(self) == self.is_reversed

\* the range check without its upper bound
check_value_range_lower(value) == value < 0

check_value_range(value) == value < 0 \/ value > Den

\* the index scaled by the length instead of the last index
value_to_index_len(self, value) ==
    IF self.cls = "utils"
    THEN round(value * Len(self.palette), Den)
    ELSE int(value * Len(self.palette), Den)

\* converter.py scaling by the length, utils.py by the last index
value_to_index_mixed(self, value) ==
    IF self.cls = "utils"
    THEN round(value * (Len(self.palette) - 1), Den)
    ELSE int(value * Len(self.palette), Den)

\* the index truncated in both classes
value_to_index_int(self, value) ==
    int(value * (Len(self.palette) - 1), Den)

value_to_index(self, value) ==
    IF self.cls = "utils"
    THEN round(value * (Len(self.palette) - 1), Den)
    ELSE int(value * (Len(self.palette) - 1), Den)

getitem(self, value) ==
    IF check_value_range(value) THEN [err |-> "ValueError", ret |-> <<>>]
    ELSE IF ~InRange(self.palette, value_to_index(self, value))
    THEN [err |-> "IndexError", ret |-> <<>>]
    ELSE [err |-> "",
          ret |-> self.palette[Slot(self.palette, value_to_index(self, value))]]

\* list.insert in place of the item assignment
setitem_insert(self, value, character) ==
    IF check_value_range(value) THEN [err |-> "ValueError", obj |-> self]
    ELSE [err |-> "",
          obj |-> [self EXCEPT !.palette =
                     SubSeq(self.palette, 1, value_to_index(self, value))
                     \o <<character>>
                     \o SubSeq(self.palette, value_to_index(self, value) + 1,
                               Len(self.palette))]]

setitem(self, value, character) ==
    IF check_value_range(value) THEN [err |-> "ValueError", obj |-> self]
    ELSE IF ~InRange(self.palette, value_to_index(self, value))
    THEN [err |-> "IndexError", obj |-> self]
    ELSE [err |-> "",
          obj |-> [self EXCEPT
                   !.palette[Slot(self.palette, value_to_index(self, value))] =
                       character]]

len(self) == Len(self.palette)

str(self) == join(self.palette)

----------------------------------------------------------------------------
(* The record of the latest call; the caller's variables *)

Call(op) ==
    [op |-> op, s |-> "", name |-> "", v |-> 0, c |-> <<>>, pattern |-> <<>>,
     idx |-> 0, ret |-> <<>>, err |-> "", pre |-> NoObj,
     run |-> 0, pre2 |-> NoObj, x |-> 0, y |-> 0, by |-> "", out |-> <<>>]

NoLog == [state |-> "never", pattern |-> <<>>]
None == [name |-> "", ref |-> 0]
NoSize == [width |-> 0, height |-> 0]
NoPixels == [xy \in {} |-> 0]
NoText == [lines |-> <<>>, width |-> 0, height |-> 0]
NoBuilt == [text |-> NoText, str |-> <<>>]
NoCheck == [state |-> "disabled", selected |-> FALSE]
NoSrc == [width |-> 0, height |-> 0,
          max_width |-> [none |-> TRUE, val |-> 0],
          max_height |-> [none |-> TRUE, val |-> 0]]

Held == {s \in Slots : handles[s].ref # 0}
Obj(s) == heap[handles[s].ref]

\* a python object is stored under its identity
Store(h, ref, obj) ==
    [i \in 1 .. (IF ref > Len(h) THEN ref ELSE Len(h)) |->
        IF i = ref THEN obj ELSE h[i]]

\* the identity of a new object: one no other variable of the caller refers to
NewRef(s) ==
    CHOOSE i \in 1 .. Cardinality(Slots) :
        /\ \A t \in Slots \ {s} : handles[t].ref # i
        /\ \A j \in 1 .. (i - 1) : \E t \in Slots \ {s} : handles[t].ref = j

----------------------------------------------------------------------------
(* Palette operations on a palette the caller holds *)

PaletteGet(s, value) ==
    /\ last' = [Call("get") EXCEPT
                  !.s = s, !.v = value, !.pre = Obj(s),
                  !.idx = IF check_value_range(value) THEN 0
                          ELSE value_to_index(Obj(s), value),
                  !.ret = getitem(Obj(s), value).ret,
                  !.err = getitem(Obj(s), value).err]
    /\ UNCHANGED <<patterns, log, handles, heap, len0, fresh, src, base,
                     pixels, text, built, check, display>>

PaletteSet(s, value, character) ==
    /\ heap' = [heap EXCEPT ![handles[s].ref] =
                    setitem(Obj(s), value, character).obj]
    /\ last' = [Call("set") EXCEPT
                  !.s = s, !.v = value, !.c = character, !.pre = Obj(s),
                  !.idx = IF check_value_range(value) THEN 0
                          ELSE value_to_index(Obj(s), value),
                  !.err = setitem(Obj(s), value, character).err]
    /\ fresh' = [fresh EXCEPT ![handles[s].ref] = <<>>]
    /\ UNCHANGED <<patterns, log, handles, len0, src, base,
                     pixels, text, built, check, display>>

\* the call before this one was the first reverse() of a pair on the same palette
Twice(s) == last.op = "reverse" /\ last.s = s /\ last.run = 1

PaletteReverse(s) ==
    /\ heap' = [heap EXCEPT ![handles[s].ref] = reverse(Obj(s))]
    /\ last' = [Call("reverse") EXCEPT
                  !.s = s, !.pre = Obj(s),
                  !.run = IF Twice(s) THEN 2 ELSE 1,
                  !.pre2 = IF Twice(s) THEN last.pre ELSE NoObj]
    /\ fresh' = [fresh EXCEPT ![handles[s].ref] = <<>>]
    /\ UNCHANGED <<patterns, log, handles, len0, src, base,
                     pixels, text, built, check, display>>

PaletteOps(vals) ==
    \E s \in Held :
        \/ \E value \in vals : PaletteGet(s, value)
        \/ \E value \in vals, ch \in Chars : PaletteSet(s, value, <<ch>>)
        \/ PaletteReverse(s)

InitPalette ==
    \E cls \in Classes, characters \in SeqsUpTo(Chars, MaxLen) \ {<<>>} :
        /\ patterns = [n \in {} |-> <<>>]
        /\ log = [n \in Names |-> NoLog]
        /\ handles = [s \in Slots |->
                        IF s = "p" THEN [name |-> "", ref |-> 1] ELSE None]
        /\ heap = <<Palette(cls, characters)>>
        /\ len0 = <<Len(characters)>>
        /\ fresh = <<characters>>
        /\ last = [Call("Palette") EXCEPT !.s = "p", !.pattern = characters]
        /\ src = NoSrc
        /\ base = NoSize
        /\ pixels = NoPixels
        /\ text = NoText
        /\ built = NoBuilt
        /\ check = NoCheck
        /\ display = <<>>

NextPalette == PaletteOps(Values)

SpecPalette == InitPalette /\ [][NextPalette]_vars

----------------------------------------------------------------------------
(* PaletteFactory *)

Factory == [n \in {} |-> <<>>]

\* a registration that keeps the definition a name already has
register_pattern_keep(pats, name, pattern) ==
    [n \in DOMAIN pats \cup {name} |->
        IF n \in DOMAIN pats THEN pats[n] ELSE pattern]

register_pattern(pats, name, pattern) ==
    [n \in DOMAIN pats \cup {name} |-> IF n = name THEN pattern ELSE pats[n]]

unregister_pattern(pats, name) ==
    IF name \in DOMAIN pats
    THEN [n \in DOMAIN pats \ {name} |-> pats[n]]
    ELSE pats

\* a factory that keeps the palette it built for a name and returns it again
get_palette_cached(s, name) ==
    IF name \notin DOMAIN patterns
    THEN [err |-> "KeyError", ref |-> 0, obj |-> NoObj]
    ELSE IF Len(patterns[name]) = 0
    THEN [err |-> "ValueError", ref |-> 0, obj |-> NoObj]
    ELSE IF \E t \in Held : handles[t].name = name
    THEN LET t == CHOOSE t \in Held : handles[t].name = name
         IN  [err |-> "", ref |-> handles[t].ref, obj |-> Obj(t)]
    ELSE [err |-> "", ref |-> NewRef(s),
          obj |-> Palette("utils", patterns[name])]

\* a lookup that takes an empty definition for a missing one
get_palette_falsy(s, name) ==
    IF name \notin DOMAIN patterns \/ patterns[name] = <<>>
    THEN [err |-> "KeyError", ref |-> 0, obj |-> NoObj]
    ELSE [err |-> "", ref |-> NewRef(s),
          obj |-> Palette("utils", patterns[name])]

\* the error get_palette raises, or the palette it builds and its identity
get_palette(s, name) ==
    IF name \notin DOMAIN patterns
    THEN [err |-> "KeyError", ref |-> 0, obj |-> NoObj]
    ELSE IF Len(patterns[name]) = 0
    THEN [err |-> "ValueError", ref |-> 0, obj |-> NoObj]
    ELSE [err |-> "", ref |-> NewRef(s),
          obj |-> Palette("utils", patterns[name])]

RegisterPattern(name, pattern) ==
    /\ patterns' = register_pattern(patterns, name, pattern)
    /\ log' = [log EXCEPT ![name] = [state |-> "registered",
                                     pattern |-> pattern]]
    /\ last' = [Call("register_pattern") EXCEPT
                  !.name = name, !.pattern = pattern]
    /\ UNCHANGED <<handles, heap, len0, fresh, src, base,
                     pixels, text, built, check, display>>

UnregisterPattern(name) ==
    /\ patterns' = unregister_pattern(patterns, name)
    /\ log' = IF log[name].state = "registered"
              THEN [log EXCEPT ![name] = [state |-> "unregistered",
                                          pattern |-> <<>>]]
              ELSE log
    /\ last' = [Call("unregister_pattern") EXCEPT !.name = name]
    /\ UNCHANGED <<handles, heap, len0, fresh, src, base,
                     pixels, text, built, check, display>>

\* s = factory.get_palette(name)
GetPalette(s, name) ==
    LET r == get_palette(s, name)
    IN  /\ IF r.err = ""
           THEN /\ heap' = Store(heap, r.ref, r.obj)
                /\ len0' = Store(len0, r.ref, Len(patterns[name]))
                /\ fresh' = Store(fresh, r.ref, patterns[name])
                /\ handles' = [handles EXCEPT
                                 ![s] = [name |-> name, ref |-> r.ref]]
                /\ last' = [Call("get_palette") EXCEPT
                              !.name = name, !.s = s,
                              !.pattern = patterns[name]]
           ELSE /\ UNCHANGED <<heap, len0, fresh, handles>>
                /\ last' = [Call("get_palette") EXCEPT
                              !.name = name, !.s = s, !.err = r.err]
        /\ UNCHANGED <<patterns, log, src, base,
                     pixels, text, built, check, display>>

Prefix(k) == SubSeq(Alphabet, 1, k)
PatternsIn == UNION {{Prefix(k), Rev(Prefix(k))} : k \in 0 .. MaxPatLen}

InitFactory ==
    /\ patterns = Factory
    /\ log = [n \in Names |-> NoLog]
    /\ handles = [s \in Slots |-> None]
    /\ heap = <<>>
    /\ len0 = <<>>
    /\ fresh = <<>>
    /\ last = Call("PaletteFactory")
    /\ src = NoSrc
    /\ base = NoSize
    /\ pixels = NoPixels
    /\ text = NoText
    /\ built = NoBuilt
    /\ check = NoCheck
    /\ display = <<>>

NextFactory ==
    \/ \E name \in Names, pattern \in PatternsIn :
           RegisterPattern(name, pattern)
    \/ \E name \in Names : UnregisterPattern(name)
    \/ \E s \in Slots, name \in Names : GetPalette(s, name)

SpecFactory == InitFactory /\ [][NextFactory]_vars

\* a factory read from a palette file, and two users of its palettes
InitShare ==
    \E pattern \in PatternsIn \ {<<>>} :
        /\ patterns = [n \in Names |->
                         IF n = "x" THEN pattern ELSE Rev(pattern)]
        /\ log = [n \in Names |->
                    [state |-> "registered",
                     pattern |-> IF n = "x" THEN pattern ELSE Rev(pattern)]]
        /\ handles = [s \in Slots |-> None]
        /\ heap = <<>>
        /\ len0 = <<>>
        /\ fresh = <<>>
        /\ last = Call("read_palette_file")
        /\ src = NoSrc
        /\ base = NoSize
        /\ pixels = NoPixels
        /\ text = NoText
        /\ built = NoBuilt
        /\ check = NoCheck
        /\ display = <<>>

NextShare ==
    \/ \E s \in Slots, name \in Names : GetPalette(s, name)
    \/ PaletteOps(EndValues)

SpecShare == InitShare /\ [][NextShare]_vars

----------------------------------------------------------------------------
(* BaseImage *)

\* an optional int argument: None or a value
Opt(vals) == {[none |-> TRUE, val |-> 0]} \cup
             {[none |-> FALSE, val |-> k] : k \in vals}

\* the size without the minimum of 1 on each side
downsize_image_unclamped(image, max_width, max_height) ==
    LET width1 == IF image.width > max_width THEN max_width ELSE image.width
        height1 == IF image.width > max_width
                   THEN int(max_width * image.height, image.width)
                   ELSE image.height
        width2 == IF height1 > max_height
                  THEN int(max_height * image.width, image.height)
                  ELSE width1
        height2 == IF height1 > max_height THEN max_height ELSE height1
    IN  [width |-> width2, height |-> height2]

\* the fit to the width alone
downsize_image_width_only(image, max_width, max_height) ==
    LET width1 == IF image.width > max_width THEN max_width ELSE image.width
        height1 == IF image.width > max_width
                   THEN int(max_width * image.height, image.width)
                   ELSE image.height
    IN  [width |-> IF width1 = 0 THEN 1 ELSE width1,
         height |-> IF height1 = 0 THEN 1 ELSE height1]

\* the fit with round() in place of int(), the second stage on the size of
\* the first
downsize_image_round(image, max_width, max_height) ==
    LET width1 == IF image.width > max_width THEN max_width ELSE image.width
        height1 == IF image.width > max_width
                   THEN round(max_width * image.height, image.width)
                   ELSE image.height
        width2 == IF height1 > max_height
                  THEN round(max_height * width1, height1)
                  ELSE width1
        height2 == IF height1 > max_height THEN max_height ELSE height1
    IN  [width |-> IF width2 = 0 THEN 1 ELSE width2,
         height |-> IF height2 = 0 THEN 1 ELSE height2]

\* the size of the image _downsize_image returns
downsize_image(image, max_width, max_height) ==
    LET width1 == IF image.width > max_width THEN max_width ELSE image.width
        height1 == IF image.width > max_width
                   THEN int(max_width * image.height, image.width)
                   ELSE image.height
        width2 == IF height1 > max_height
                  THEN int(max_height * image.width, image.height)
                  ELSE width1
        height2 == IF height1 > max_height THEN max_height ELSE height1
    IN  [width |-> IF width2 = 0 THEN 1 ELSE width2,
         height |-> IF height2 = 0 THEN 1 ELSE height2]

\* BaseImage(image, max_width, max_height); a behaviour follows one BaseImage
BaseImageInit(image, max_width, max_height) ==
    LET mw == IF max_width.none THEN image.width ELSE max_width.val
        mh == IF max_height.none THEN image.height ELSE max_height.val
    IN  /\ last.op = ""
        /\ src' = [width |-> image.width, height |-> image.height,
                   max_width |-> max_width, max_height |-> max_height]
        /\ IF mw < 0 \/ mh < 0
           THEN /\ base' = NoSize
                /\ last' = [Call("BaseImage") EXCEPT !.err = "ValueError"]
           ELSE /\ base' = downsize_image(image, mw, mh)
                /\ last' = Call("BaseImage")
        /\ UNCHANGED <<patterns, log, handles, heap, len0, fresh,
                     pixels, text, built, check, display>>

Sizes == [width : 1 .. MaxDim, height : 1 .. MaxDim]

InitImage ==
    /\ patterns = Factory
    /\ log = [n \in Names |-> NoLog]
    /\ handles = [s \in Slots |-> None]
    /\ heap = <<>>
    /\ len0 = <<>>
    /\ fresh = <<>>
    /\ last = Call("")
    /\ src = NoSrc
    /\ base = NoSize
    /\ pixels = NoPixels
    /\ text = NoText
    /\ built = NoBuilt
    /\ check = NoCheck
    /\ display = <<>>

NextImage ==
    \E image \in Sizes :
        \E max_width \in Opt((0 - 1) .. MaxDim),
           max_height \in Opt((0 - 1) .. MaxDim) :
            BaseImageInit(image, max_width, max_height)

SpecImage == InitImage /\ [][NextImage]_vars

----------------------------------------------------------------------------
(* The pixels of a BaseImage; TextImage *)

MaxPixel == 255
Levels == {0, 128, MaxPixel}

Coords(size) == (0 .. (size.width - 1)) \X (0 .. (size.height - 1))

\* Image.getpixel((x, y)): a negative coordinate counts from the far edge
getpixel(x, y) ==
    LET xx == IF x < 0 THEN base.width + x ELSE x
        yy == IF y < 0 THEN base.height + y ELSE y
    IN  IF <<xx, yy>> \in DOMAIN pixels
        THEN [err |-> "", px |-> pixels[<<xx, yy>>]]
        ELSE [err |-> "IndexError", px |-> 0]

\* value_at(x, y): the error, who raised it, and the pixel of the value
\* px / 255 returned
value_at(x, y) ==
    IF x < 0 \/ x > base.width
    THEN [err |-> "IndexError", by |-> "value_at", px |-> 0]
    ELSE IF y < 0 \/ y > base.height
    THEN [err |-> "IndexError", by |-> "value_at", px |-> 0]
    ELSE IF getpixel(x, y).err # ""
    THEN [err |-> getpixel(x, y).err, by |-> "getpixel", px |-> 0]
    ELSE [err |-> "", by |-> "", px |-> getpixel(x, y).px]

\* the pixels column by column
base_iter_columns ==
    [k \in 1 .. (base.width * base.height) |->
        getpixel((k - 1) \div base.height, (k - 1) % base.height).px]

\* iter(base_image): the pixels of the values px / 255, row by row
base_iter ==
    [k \in 1 .. (base.width * base.height) |->
        getpixel((k - 1) % base.width, (k - 1) \div base.width).px]

\* palette[px / 255] of a utils.py palette
getitem_pixel(self, px) ==
    IF px < 0 \/ px > MaxPixel THEN [err |-> "ValueError", ret |-> <<>>]
    ELSE IF ~InRange(self.palette, round(px * (Len(self.palette) - 1), MaxPixel))
    THEN [err |-> "IndexError", ret |-> <<>>]
    ELSE [err |-> "",
          ret |-> self.palette[Slot(self.palette,
                      round(px * (Len(self.palette) - 1), MaxPixel))]]

\* limited(pixels, width) of the row-th line
limited(it, width, row) == SubSeq(it, (row - 1) * width + 1, row * width)

\* TextImage(base_image, palette)
TextImage(palette) ==
    [lines |-> [row \in 1 .. base.height |->
                  join([j \in 1 .. base.width |->
                          getitem_pixel(palette,
                              limited(base_iter, base.width, row)[j]).ret])],
     width |-> base.width,
     height |-> base.height]

RECURSIVE join_nl(_)
\* '\n'.join(strs)
join_nl(strs) ==
    IF strs = <<>> THEN <<>>
    ELSE IF Len(strs) = 1 THEN Head(strs)
    ELSE Head(strs) \o <<"\n">> \o join_nl(Tail(strs))

\* char * n
times(char, n) == [i \in 1 .. n |-> char]

\* ''.join(char * x_stretch for char in line)
stretched(line, x_stretch) ==
    join([i \in 1 .. Len(line) |-> times(line[i], x_stretch)])

\* a format that repeats the whole image y_stretch times
format_blocks(self, x_stretch, y_stretch) ==
    join_nl([k \in 1 .. (y_stretch * Len(self.lines)) |->
               stretched(self.lines[((k - 1) % Len(self.lines)) + 1],
                         x_stretch)])

\* a format that looks the characters up again in the palette as it is now
format_live(self, x_stretch, y_stretch) ==
    join_nl([row \in 1 .. Len(self.lines) |->
               join_nl([i \in 1 .. y_stretch |->
                          stretched(TextImage(Obj("p")).lines[row],
                                    x_stretch)])])

\* format((x_stretch, y_stretch))
format(self, x_stretch, y_stretch) ==
    join_nl([row \in 1 .. Len(self.lines) |->
               join_nl([i \in 1 .. y_stretch |->
                          stretched(self.lines[row], x_stretch)])])

\* iter(text_image)
text_iter(self) ==
    [k \in 1 .. (self.width * self.height) |->
        self.lines[((k - 1) \div self.width) + 1][((k - 1) % self.width) + 1]]

text_len(self) == self.width * self.height

text_str(self) == join_nl(self.lines)

ValueAt(x, y) ==
    /\ last' = [Call("value_at") EXCEPT
                  !.x = x, !.y = y, !.v = value_at(x, y).px,
                  !.err = value_at(x, y).err, !.by = value_at(x, y).by]
    /\ UNCHANGED <<patterns, log, handles, heap, len0, fresh, src, base,
                   pixels, text, built, check, display>>

TextImageInit(s) ==
    /\ text' = TextImage(Obj(s))
    /\ built' = [text |-> TextImage(Obj(s)),
                 str |-> text_str(TextImage(Obj(s)))]
    /\ last' = [Call("TextImage") EXCEPT !.s = s, !.pre = Obj(s)]
    /\ UNCHANGED <<patterns, log, handles, heap, len0, fresh, src, base,
                   pixels, check, display>>

Format(x_stretch, y_stretch) ==
    /\ text # NoText
    /\ last' = [Call("format") EXCEPT
                  !.x = x_stretch, !.y = y_stretch,
                  !.out = format(text, x_stretch, y_stretch)]
    /\ UNCHANGED <<patterns, log, handles, heap, len0, fresh, src, base,
                   pixels, text, built, check, display>>

TextIter ==
    /\ text # NoText
    /\ last' = [Call("iter") EXCEPT !.out = text_iter(text)]
    /\ UNCHANGED <<patterns, log, handles, heap, len0, fresh, src, base,
                   pixels, text, built, check, display>>

TextSizes ==
    {size \in [width : 1 .. MaxPixels, height : 1 .. MaxPixels] :
        size.width * size.height <= MaxPixels}

\* a processed image and a palette of the factory
InitText ==
    \E size \in TextSizes, k \in 1 .. MaxPatLen :
        \E px \in [Coords(size) -> Levels] :
            /\ patterns = Factory
            /\ log = [n \in Names |-> NoLog]
            /\ handles = [s \in Slots |->
                            IF s = "p" THEN [name |-> "", ref |-> 1]
                            ELSE None]
            /\ heap = <<Palette("utils", Prefix(k))>>
            /\ len0 = <<k>>
            /\ fresh = <<Prefix(k)>>
            /\ last = Call("BaseImage")
            /\ src = NoSrc
            /\ base = size
            /\ pixels = px
            /\ text = NoText
            /\ built = NoBuilt
            /\ check = NoCheck
            /\ display = <<>>

Stretches == (0 - 1) .. MaxStretch

NextPixels ==
    \E x \in (0 - 1) .. base.width, y \in (0 - 1) .. base.height :
        ValueAt(x, y)

SpecPixels == InitText /\ [][NextPixels]_vars

NextText ==
    \/ TextImageInit("p")
    \/ \E x_stretch \in Stretches, y_stretch \in Stretches :
           Format(x_stretch, y_stretch)
    \/ TextIter

SpecText == InitText /\ [][NextText]_vars

\* the image whose pixels run through the levels, row by row
Ramp(size) ==
    [xy \in Coords(size) |->
        IF (xy[1] + xy[2] * size.width) % 3 = 0 THEN 0
        ELSE IF (xy[1] + xy[2] * size.width) % 3 = 1 THEN 128
        ELSE MaxPixel]

InitFrozen ==
    \E size \in TextSizes, k \in 1 .. MaxPatLen :
        /\ patterns = Factory
        /\ log = [n \in Names |-> NoLog]
        /\ handles = [s \in Slots |->
                        IF s = "p" THEN [name |-> "", ref |-> 1] ELSE None]
        /\ heap = <<Palette("utils", Prefix(k))>>
        /\ len0 = <<k>>
        /\ fresh = <<Prefix(k)>>
        /\ last = Call("BaseImage")
        /\ src = NoSrc
        /\ base = size
        /\ pixels = Ramp(size)
        /\ text = NoText
        /\ built = NoBuilt
        /\ check = NoCheck
        /\ display = <<>>

\* a TextImage, its palette changed after the construction
NextFrozen ==
    \/ TextImageInit("p")
    \/ \E x_stretch \in Stretches, y_stretch \in Stretches :
           Format(x_stretch, y_stretch)
    \/ TextIter
    \/ PaletteOps(EndValues)

SpecFrozen == InitFrozen /\ [][NextFrozen]_vars

----------------------------------------------------------------------------
(* Application: the palette combobox and the 'Reverse palette' checkbox *)

\* a selection that leaves the checkbox as it is
must_uncheck_never == FALSE

\* the palette is not None and the checkbox is checked
must_uncheck == handles["p"].ref # 0 /\ check.selected

\* Checkbutton.invoke(): toggle, then run the command
toggled(box) == [box EXCEPT !.selected = ~box.selected]

\* _cmd_select_palette; "p" is self._palette, "q" the local palette
CmdSelectPalette(name) ==
    LET r == get_palette("q", name)
        old == handles["p"].ref
        heap1 == Store(heap, r.ref, r.obj)
        \* the checkbox's command reverses self._palette, still the old one
        heap2 == IF must_uncheck
                 THEN [heap1 EXCEPT ![old] = reverse(heap1[old])]
                 ELSE heap1
    IN  IF r.err # ""
        THEN /\ last' = [Call("select_palette") EXCEPT
                           !.name = name, !.err = r.err]
             /\ UNCHANGED <<patterns, log, handles, heap, len0, fresh, src,
                            base, pixels, text, built, check, display>>
        ELSE /\ check' = [(IF must_uncheck THEN toggled(check) ELSE check)
                             EXCEPT !.state = "normal"]
             /\ display' = str(heap2[r.ref])
             /\ handles' = [handles EXCEPT
                              !["p"] = [name |-> name, ref |-> r.ref]]
             \* the old palette is released
             /\ heap' = IF old # 0 /\ old # r.ref
                        THEN [heap2 EXCEPT ![old] = NoObj] ELSE heap2
             /\ len0' = Store(len0, r.ref, Len(patterns[name]))
             /\ fresh' = Store(fresh, r.ref, patterns[name])
             /\ last' = [Call("select_palette") EXCEPT
                           !.name = name, !.s = "p",
                           !.pattern = patterns[name],
                           !.pre = IF old = 0 THEN NoObj ELSE Obj("p"),
                           !.run = IF check.selected THEN 1 ELSE 0]
             /\ UNCHANGED <<patterns, log, src, base, pixels, text, built>>

\* a click on the enabled checkbox: toggle, then _cmd_reverse_palette
CmdReversePalette ==
    /\ check.state = "normal"
    /\ check' = toggled(check)
    /\ heap' = [heap EXCEPT ![handles["p"].ref] = reverse(Obj("p"))]
    /\ display' = str(reverse(Obj("p")))
    /\ fresh' = [fresh EXCEPT ![handles["p"].ref] = <<>>]
    /\ last' = [Call("reverse_palette") EXCEPT !.s = "p", !.pre = Obj("p")]
    /\ UNCHANGED <<patterns, log, handles, len0, src, base, pixels, text,
                   built>>

\* Application(root, read_palette_file(...))
InitGui ==
    \E px \in PatternsIn, py \in PatternsIn :
        /\ patterns = [n \in Names |-> IF n = "x" THEN px ELSE py]
        /\ log = [n \in Names |->
                    [state |-> "registered",
                     pattern |-> IF n = "x" THEN px ELSE py]]
        /\ handles = [s \in Slots |-> None]
        /\ heap = <<>>
        /\ len0 = <<>>
        /\ fresh = <<>>
        /\ last = Call("Application")
        /\ src = NoSrc
        /\ base = NoSize
        /\ pixels = NoPixels
        /\ text = NoText
        /\ built = NoBuilt
        /\ check = NoCheck
        /\ display = <<>>

NextGui ==
    \/ \E name \in Names : CmdSelectPalette(name)
    \/ CmdReversePalette

SpecGui == InitGui /\ [][NextGui]_vars

----------------------------------------------------------------------------
(* Properties of Palette, under SpecPalette *)

InUnit(v) == 0 <= v /\ v <= Den

\* C1: get(v) with 0 <= v <= 1 on a palette of either class does not fail,
\* its index lies in 0 .. len - 1 and the character returned is one of the
\* palette's characters.
GetNeverFails ==
    (last.op = "get" /\ InUnit(last.v)) =>
        /\ last.err = ""
        /\ last.idx \in 0 .. (len(last.pre) - 1)
        /\ \E i \in 1 .. len(last.pre) : last.pre.palette[i] = last.ret

GetNeverFailsWitness ==
    /\ last.op = "get" /\ last.v = Den /\ last.err = ""
    /\ len(last.pre) = MaxLen
    /\ last.pre.cls = "converter"

\* C2: a freshly constructed Palette(C) returns C[0] from get(0) and C[-1]
\* from get(1), for C of length 1 too.
FreshEnds ==
    \A s \in Held :
        (last.op = "get" /\ last.s = s /\ fresh[handles[s].ref] # <<>>) =>
            LET C == fresh[handles[s].ref]
            IN  /\ last.v = 0 => last.ret = <<C[1]>>
                /\ last.v = Den => last.ret = <<C[Len(C)]>>

FreshEndsWitness ==
    /\ last.op = "get" /\ last.v = Den /\ last.s \in Held
    /\ fresh[handles[last.s].ref] = <<"a", "b">>
    /\ last.ret = <<"b">>

Nearest(i, v, n) == 2 * Abs(i * Den - v * (n - 1)) <= Den

\* C3: in utils.py get(v) returns the character at index round(v * (n - 1)),
\* the slot nearest to v * (n - 1), and set(v, c) writes that same index.
RoundedIndex ==
    (last.op \in {"get", "set"} /\ InUnit(last.v) /\ last.pre.cls = "utils") =>
        LET n == len(last.pre)
            i == round(last.v * (n - 1), Den)
        IN  /\ last.err = ""
            /\ Nearest(i, last.v, n)
            /\ last.op = "get" => last.ret = last.pre.palette[i + 1]
            /\ last.op = "set" =>
                   Obj(last.s) = [last.pre EXCEPT !.palette[i + 1] = last.c]

\* a set whose index is rounded up, where truncation picks the slot below
RoundedIndexWitness ==
    /\ last.op = "set" /\ InUnit(last.v) /\ last.pre.cls = "utils"
    /\ 2 * ((last.v * (len(last.pre) - 1)) % Den) > Den
    /\ Obj(last.s) # last.pre

\* C4: reverse() twice restores the character order, every get(v) and the
\* reversed flag.
ReverseTwice ==
    (last.op = "reverse" /\ last.run = 2) =>
        /\ Obj(last.s).palette = last.pre2.palette
        /\ \A v \in Values : getitem(Obj(last.s), v) = getitem(last.pre2, v)
        /\ is_reversed(Obj(last.s)) = is_reversed(last.pre2)

ReverseTwiceWitness ==
    /\ last.op = "reverse" /\ last.run = 2
    /\ len(last.pre2) = MaxLen
    /\ last.pre2.palette # Rev(last.pre2.palette)
    /\ ~is_reversed(last.pre2)

\* C5: get(v) and set(v, c) fail with ValueError for v < 0 and for v > 1, and
\* the failed call leaves the palette as it was.
OutOfRangeFails ==
    (last.op \in {"get", "set"} /\ ~InUnit(last.v)) =>
        /\ last.err = "ValueError"
        /\ Obj(last.s) = last.pre

OutOfRangeFailsWitness ==
    /\ last.op = "set" /\ last.v > Den /\ last.err = "ValueError"
    /\ last.pre.is_reversed

\* C6: the length of a palette is the length of the sequence it was
\* constructed from, and at least 1, after any get, set and reverse.
LengthFixed ==
    \A s \in Held :
        /\ len(Obj(s)) = len0[handles[s].ref]
        /\ len(Obj(s)) >= 1

LengthFixedWitness ==
    /\ last.op = "set" /\ last.err = "" /\ last.pre.is_reversed
    /\ Obj(last.s) # last.pre
    /\ len(Obj(last.s)) = MaxLen

----------------------------------------------------------------------------
(* Properties of PaletteFactory *)

Others(s) == Held \ {s}

\* C7: palettes returned by get_palette are independent.  A set() or
\* reverse() on one palette changes neither the factory's definitions nor any
\* other palette the caller holds; a get_palette returns an un-reversed
\* palette of the stored definition and changes no palette returned earlier.
\* Under SpecShare.
Independent ==
    [][/\ last'.op \in {"set", "reverse"} =>
            /\ patterns' = patterns
            /\ \A t \in Others(last'.s) :
                   heap'[handles'[t].ref] = heap[handles[t].ref]
       /\ (last'.op = "get_palette" /\ last'.err = "") =>
            /\ patterns' = patterns
            /\ ~is_reversed(heap'[handles'[last'.s].ref])
            /\ str(heap'[handles'[last'.s].ref]) = patterns[last'.name]
            /\ \A t \in Others(last'.s) :
                   heap'[handles'[t].ref] = heap[handles[t].ref]
      ]_vars

\* two palettes of one name, the first reversed and changed, the second as
\* the factory defines it
IndependentWitness ==
    /\ Held = Slots
    /\ handles["p"].name = handles["q"].name
    /\ is_reversed(Obj("p"))
    /\ str(Obj("p")) # Rev(patterns[handles["p"].name])
    /\ last.op = "get_palette" /\ last.s = "q"
    /\ str(Obj("q")) = patterns[handles["q"].name]
    /\ Len(patterns[handles["q"].name]) = MaxPatLen

\* C8: get_palette of a name registered with a non-empty pattern returns a
\* palette whose string form is the pattern of the latest register_pattern of
\* that name.  Under SpecFactory.
RoundTrip ==
    (/\ last.op = "get_palette"
     /\ log[last.name].state = "registered"
     /\ log[last.name].pattern # <<>>) =>
        /\ last.err = ""
        /\ str(Obj(last.s)) = log[last.name].pattern

\* the name was registered again between two of its get_palette calls
RoundTripWitness ==
    /\ last.op = "get_palette" /\ last.err = ""
    /\ Held = Slots
    /\ \E t \in Others(last.s) :
           /\ handles[t].name = last.name
           /\ str(Obj(t)) # str(Obj(last.s))
    /\ Len(str(Obj(last.s))) = MaxPatLen

\* C9: get_palette fails with KeyError exactly when the name is not
\* registered, and the failed call leaves the registry as it was;
\* unregister_pattern raises no error and changes no entry but the named one.
\* Under SpecFactory.
KeyErrorIffAbsent ==
    [][/\ last'.op = "get_palette" =>
            /\ (last'.err = "KeyError") <=>
                   (log[last'.name].state # "registered")
            /\ last'.err # "" => patterns' = patterns
       /\ last'.op = "unregister_pattern" =>
            /\ last'.err = ""
            /\ last'.name \notin DOMAIN patterns'
            /\ DOMAIN patterns' = DOMAIN patterns \ {last'.name}
            /\ \A n \in DOMAIN patterns' : patterns'[n] = patterns[n]
      ]_vars

\* a name unregistered after its registration, looked up beside another
\* name that is still registered
KeyErrorIffAbsentWitness ==
    /\ last.op = "get_palette" /\ last.err = "KeyError"
    /\ log[last.name].state = "unregistered"
    /\ DOMAIN patterns # {}

----------------------------------------------------------------------------
(* Properties of BaseImage, under SpecImage *)

\* C10: for a source of width >= 1 and height >= 1 and max_width >= 0 and
\* max_height >= 0, the processed image has width >= 1 and height >= 1.
AtLeastOne ==
    (last.op = "BaseImage" /\ last.err = "") =>
        /\ base.width >= 1
        /\ base.height >= 1

\* a wide source of height 1 whose scaled height truncates to 0, and a
\* max_height of 0
AtLeastOneWitness ==
    /\ last.op = "BaseImage" /\ last.err = ""
    /\ src.width = MaxDim /\ src.height = 1
    /\ ~src.max_width.none /\ src.max_width.val = MaxDim - 1
    /\ ~src.max_height.none /\ src.max_height.val = 0
    /\ base = [width |-> MaxDim - 1, height |-> 1]

\* the maxima BaseImage.__init__ passes on: None is the source's own size
MaxW == IF src.max_width.none THEN src.width ELSE src.max_width.val
MaxH == IF src.max_height.none THEN src.height ELSE src.max_height.val
Built == last.op = "BaseImage" /\ last.err = ""
AtLeast1(n) == IF n = 0 THEN 1 ELSE n

\* C11 as stated: the processed image fits within max_width x max_height and
\* is no larger than the source.
FitsCeiling ==
    Built =>
        /\ base.width <= MaxW /\ base.height <= MaxH
        /\ base.width <= src.width /\ base.height <= src.height

\* C11 amended: the processed image is no larger than the source and fits
\* within the maxima, a maximum of 0 counting as 1.
FitsCeilingOrOne ==
    Built =>
        /\ base.width <= AtLeast1(MaxW) /\ base.height <= AtLeast1(MaxH)
        /\ base.width <= src.width /\ base.height <= src.height

\* both stages have acted, and a maximum of 0 has given a side of 1
FitsCeilingOrOneWitness ==
    /\ Built
    /\ src.width = MaxDim /\ src.height = MaxDim
    /\ MaxW = MaxDim - 1 /\ MaxH = 0
    /\ base = [width |-> 1, height |-> 1]

\* C12 as stated: the target size is the two-stage fit with round(), the
\* second stage scaling the width of the first stage by max_height over the
\* height of the first stage.
TwoStageRounded ==
    Built =>
        base = downsize_image_round([width |-> src.width,
                                     height |-> src.height], MaxW, MaxH)

\* i is the quotient p / q truncated
Truncated(i, p, q) == i * q <= p /\ p < (i + 1) * q

\* C12 amended: the target size is the two-stage fit with truncation.  If the
\* source is wider than max_width, width = max_width and height =
\* int(max_width * source_height / source_width); if that height exceeds
\* max_height, height = max_height and width =
\* int(max_height * source_width / source_height), from the source's size; a
\* side of 0 becomes 1.  A 200x100 source with maxima 50x50 yields 50x25.
TwoStageTruncated ==
    /\ downsize_image([width |-> 200, height |-> 100], 50, 50) =
           [width |-> 50, height |-> 25]
    /\ Built =>
        \E w1 \in 0 .. src.width, h1 \in 0 .. src.height :
            /\ IF src.width > MaxW
               THEN w1 = MaxW /\ Truncated(h1, MaxW * src.height, src.width)
               ELSE w1 = src.width /\ h1 = src.height
            /\ IF h1 > MaxH
               THEN /\ base.height = AtLeast1(MaxH)
                    /\ \E w2 \in 0 .. src.width :
                           /\ Truncated(w2, MaxH * src.width, src.height)
                           /\ base.width = AtLeast1(w2)
               ELSE /\ base.height = AtLeast1(h1)
                    /\ base.width = AtLeast1(w1)

\* both stages have acted and the size differs from the rounded fit
TwoStageTruncatedWitness ==
    /\ Built
    /\ src.width > MaxW
    /\ int(MaxW * src.height, src.width) > MaxH
    /\ MaxH >= 1
    /\ base # downsize_image_round([width |-> src.width,
                                    height |-> src.height], MaxW, MaxH)

----------------------------------------------------------------------------
(* Properties of value_at, under SpecPixels *)

\* C13: value_at's own check rejects every x < 0, x >= width, y < 0 and
\* y >= height with IndexError before a pixel is read, and returns
\* intensity / 255 within [0, 1] for the coordinates in range.
StrictBounds ==
    last.op = "value_at" =>
        IF last.x < 0 \/ last.x >= base.width
           \/ last.y < 0 \/ last.y >= base.height
        THEN last.err = "IndexError" /\ last.by = "value_at"
        ELSE /\ last.err = ""
             /\ last.v = pixels[<<last.x, last.y>>]
             /\ 0 <= last.v /\ last.v <= MaxPixel

----------------------------------------------------------------------------
(* Properties of TextImage, under SpecText *)

\* C14: the TextImage has the size of the BaseImage, height lines of width
\* characters, len = width * height, and at row y, column x the character
\* palette.get(value of pixel (x, y)); its characters iterate row by row.
TextMatchesImage ==
    text # NoText =>
        /\ text.width = base.width /\ text.height = base.height
        /\ Len(text.lines) = base.height
        /\ \A row \in 1 .. base.height : Len(text.lines[row]) = base.width
        /\ text_len(text) = base.width * base.height
        /\ \A xy \in Coords(base) :
               <<text.lines[xy[2] + 1][xy[1] + 1]>> =
                   Obj("p").palette[round(pixels[xy] * (len(Obj("p")) - 1),
                                          MaxPixel) + 1]
        /\ last.op = "iter" =>
               /\ Len(last.out) = base.width * base.height
               /\ \A xy \in Coords(base) :
                      last.out[xy[2] * base.width + xy[1] + 1] =
                          text.lines[xy[2] + 1][xy[1] + 1]

\* a 2x2 image whose pixel right of the corner and pixel below it get
\* different characters
TextMatchesImageWitness ==
    /\ last.op = "iter"
    /\ base = [width |-> 2, height |-> 2]
    /\ text.lines[1][2] # text.lines[2][1]
    /\ pixels[<<0, 0>>] = 128 /\ text.lines[1][1] = "b"

NewLines(out) == Cardinality({i \in 1 .. Len(out) : out[i] = "\n"})

\* C15: for x >= 1 and y >= 1, format((x, y)) is height * y lines of
\* width * x characters joined by single newlines, none trailing; line k is
\* row floor(k / y) with each character repeated x times; format((1, 1)) is
\* str(text_image).
FormatStretches ==
    (last.op = "format" /\ last.x >= 1 /\ last.y >= 1) =>
        /\ last.err = ""
        /\ Len(last.out) =
               text.height * last.y * text.width * last.x
               + (text.height * last.y - 1)
        /\ NewLines(last.out) = text.height * last.y - 1
        /\ \A k \in 0 .. (text.height * last.y - 1) :
               \A j \in 0 .. (text.width * last.x - 1) :
                   last.out[k * (text.width * last.x + 1) + j + 1] =
                       text.lines[(k \div last.y) + 1][(j \div last.x) + 1]
        /\ (last.x = 1 /\ last.y = 1) => last.out = text_str(text)

\* two rows of different content, stretched both ways
FormatStretchesWitness ==
    /\ last.op = "format" /\ last.x = MaxStretch /\ last.y = MaxStretch
    /\ text.height >= 2 /\ text.width >= 2
    /\ text.lines[1] # text.lines[2]
    /\ text.lines[1][1] # text.lines[1][2]

\* C16: format fails with ValueError when x_stretch < 1 or y_stretch < 1.
FormatRejectsNonPositive ==
    (last.op = "format" /\ (last.x < 1 \/ last.y < 1)) =>
        last.err = "ValueError"

----------------------------------------------------------------------------
(* Properties of TextImage, under SpecFrozen *)

\* C17: after any format, iteration, and reverse() or set() of the palette
\* it was built from, the lines, width and height of a TextImage, its str()
\* and its format((1, 1)) are what they were at construction.
Frozen ==
    text # NoText =>
        /\ text = built.text
        /\ text_str(text) = built.str
        /\ format(text, 1, 1) = built.str
        /\ (last.op = "format" /\ last.x = 1 /\ last.y = 1) =>
               last.out = built.str
        /\ last.op = "iter" => last.out = text_iter(built.text)

\* a format after the palette was reversed and no longer gives the characters
\* of the text
FrozenWitness ==
    /\ last.op = "format" /\ last.x = 1 /\ last.y = 1
    /\ is_reversed(Obj("p"))
    /\ text.width * text.height = MaxPixels
    /\ TextImage(Obj("p")) # text

----------------------------------------------------------------------------
(* The two Palette classes, under SpecPalette *)

AsClass(self, cls) == [self EXCEPT !.cls = cls]

\* C18: for the same characters the truncating Palette of converter.py and
\* the rounding Palette of utils.py return the same character from get(v)
\* whenever v * (n - 1) is an integer, at v = 0 and v = 1 in particular; they
\* differ only where v * (n - 1) is not an integer.
SameAtIntegers ==
    (last.op = "get" /\ InUnit(last.v)) =>
        LET rounding == getitem(AsClass(last.pre, "utils"), last.v)
            truncating == getitem(AsClass(last.pre, "converter"), last.v)
            exact == (last.v * (len(last.pre) - 1)) % Den = 0
        IN  /\ exact => rounding = truncating
            /\ last.v \in {0, Den} => exact
            /\ rounding # truncating => ~exact
            /\ last.ret = IF last.pre.cls = "utils" THEN rounding.ret
                          ELSE truncating.ret

\* an integer index between the ends, on the truncating palette
SameAtIntegersWitness ==
    /\ last.op = "get" /\ last.pre.cls = "converter"
    /\ last.v \notin {0, Den} /\ InUnit(last.v)
    /\ (last.v * (len(last.pre) - 1)) % Den = 0
    /\ len(last.pre) = MaxLen
    /\ last.ret # last.pre.palette[1]

----------------------------------------------------------------------------
(* Properties of the Application, under SpecGui *)

\* C19: from no palette and a disabled, unchecked checkbox, after every
\* palette selection and checkbox click the checkbox is checked exactly when
\* the stored palette is reversed; after a selection the checkbox is
\* unchecked and the stored and displayed palette is the fresh un-reversed
\* one.
CheckboxMatchesPalette ==
    /\ handles["p"].ref = 0 => check = NoCheck
    /\ handles["p"].ref # 0 =>
           /\ check.state = "normal"
           /\ check.selected = is_reversed(Obj("p"))
           /\ display = str(Obj("p"))
    /\ (last.op = "select_palette" /\ last.err = "") =>
           /\ ~check.selected
           /\ ~is_reversed(Obj("p"))
           /\ str(Obj("p")) = patterns[last.name]
           /\ display = patterns[last.name]

\* a selection made while the checkbox was checked
CheckboxMatchesPaletteWitness ==
    /\ last.op = "select_palette" /\ last.err = ""
    /\ last.run = 1 /\ is_reversed(last.pre)
    /\ len(last.pre) = MaxPatLen
    /\ last.pre.palette # Rev(last.pre.palette)
    /\ ~check.selected /\ display = patterns[last.name]

====
